---------------------------- MODULE Spec2Model ----------------------------
(***************************************************************************)
(* Model of the inventory comparison core: the field normalizers and the   *)
(* reconciliation of comparison.py, the column mapper and the loaders of   *)
(* data_loaders.py.                                                        *)
(*                                                                         *)
(* A Python str is a sequence of one-character tokens.  The token "sup2"   *)
(* stands for U+00B2 (superscript two): str.isdigit() accepts it, int()    *)
(* does not.                                                               *)
(***************************************************************************)
EXTENDS Integers, Sequences, FiniteSets, TLC

VARIABLES
    value,        \* normalizer: the field value handed to the normalizers
    stock_norm,   \* normalizer: results of successive normalize_stock_number calls
    vin_norm,     \* normalizer: results of successive normalize_vin calls
    df_vauto,     \* reconciliation: the first normalized record set
    df_reynolds,  \* reconciliation: the second normalized record set
    results,      \* reconciliation: what compare_inventories returned
    standard_columns, \* mapper: semantic field -> list of aliases
    df_columns,   \* mapper: the raw column names
    detection,    \* mapper: what auto_detect_column_mapping returned
    raw_df,       \* loader: the table read from the file
    loaded,       \* loader: what load_vauto_inventory / load_reynolds_inventory did
    name_pair,    \* mapper: the alias and the raw column name handed to the score
    similarity,   \* mapper: what calculate_similarity_score returned
    best_found,   \* mapper: what find_best_column_match returned for a field
    analysis      \* reconciliation: what analyze_matching_quality returned

vars == <<value, stock_norm, vin_norm, df_vauto, df_reynolds, results,
          standard_columns, df_columns, detection, raw_df, loaded,
          name_pair, similarity, best_found, analysis>>

(***************************************************************************)
(* Bounds of the model.                                                    *)
(***************************************************************************)
\* the longest str field value handed to the normalizers
MaxLen == 3

\* the largest numeric field value handed to the normalizers
MaxNumber == 11

\* the most rows the two record sets of a reconciliation hold together
MaxRows == 3

\* the most aliases of a semantic field, and the most raw columns, of the mapper
MaxNames == 2

\* the most columns, and the most rows, of a raw table
MaxTable == 2

(***************************************************************************)
(* Characters and the str methods the code uses.                           *)
(***************************************************************************)
LowerLetters == <<"a","b","c","d","e","f","g","h","i","j","k","l","m",
                  "n","o","p","q","r","s","t","u","v","w","x","y","z">>

UpperLetters == <<"A","B","C","D","E","F","G","H","I","J","K","L","M",
                  "N","O","P","Q","R","S","T","U","V","W","X","Y","Z">>

DecimalDigits == <<"0","1","2","3","4","5","6","7","8","9">>

Range(f) == {f[i] : i \in DOMAIN f}

IndexOf(seq, c) == CHOOSE i \in DOMAIN seq : seq[i] = c

\* str.isspace() of one character
IsSpace(c) == c = " "

\* int() reads the character as a decimal digit (Unicode category Nd)
IsDecimal(c) == c \in Range(DecimalDigits)

\* str.isdigit() of one character: the decimal digits and the digit-valued
\* characters that are not decimal, such as superscripts
IsDigit(c) == IsDecimal(c) \/ c = "sup2"

IsAlpha(c) == c \in Range(LowerLetters) \/ c \in Range(UpperLetters)

\* str.isalnum() of one character
IsAlnum(c) == IsAlpha(c) \/ IsDigit(c)

UpperChar(c) ==
    IF c \in Range(LowerLetters) THEN UpperLetters[IndexOf(LowerLetters, c)] ELSE c

LowerChar(c) ==
    IF c \in Range(UpperLetters) THEN LowerLetters[IndexOf(UpperLetters, c)] ELSE c

\* str.upper()
Upper(s) == [i \in DOMAIN s |-> UpperChar(s[i])]

\* str.lower()
Lower(s) == [i \in DOMAIN s |-> LowerChar(s[i])]

RECURSIVE LStrip(_)
LStrip(s) == IF s # <<>> /\ IsSpace(Head(s)) THEN LStrip(Tail(s)) ELSE s

RECURSIVE RStrip(_)
RStrip(s) ==
    IF s # <<>> /\ IsSpace(s[Len(s)]) THEN RStrip(SubSeq(s, 1, Len(s) - 1)) ELSE s

\* str.strip()
Strip(s) == RStrip(LStrip(s))

\* str.isdigit(): at least one character and every character a digit
IsDigitStr(s) == s # <<>> /\ \A i \in DOMAIN s : IsDigit(s[i])

\* whether int(s) parses, for a string str.isdigit() accepted
IntParses(s) == \A i \in DOMAIN s : IsDecimal(s[i])

RECURSIVE IntOf(_)
\* int(s) of a string of decimal digits
IntOf(s) ==
    IF s = <<>> THEN 0
    ELSE 10 * IntOf(SubSeq(s, 1, Len(s) - 1)) + (IndexOf(DecimalDigits, s[Len(s)]) - 1)

RECURSIVE StrOfInt(_)
\* str(n) of a non-negative int
StrOfInt(n) ==
    IF n < 10 THEN <<DecimalDigits[n + 1]>>
    ELSE StrOfInt(n \div 10) \o <<DecimalDigits[(n % 10) + 1]>>

\* ''.join(c for c in s if c.isalnum())
KeepAlnum(s) == SelectSeq(s, IsAlnum)

(***************************************************************************)
(* Field values: a cell of a table is None/NaN, a str, an int or a float   *)
(* with a whole value (what a numeric column with blanks holds).           *)
(***************************************************************************)
Null == [kind |-> "null", s |-> <<>>, n |-> 0]

Str(s) == [kind |-> "str", s |-> s, n |-> 0]

IntVal(n) == [kind |-> "int", s |-> <<>>, n |-> n]

FloatVal(n) == [kind |-> "float", s |-> <<>>, n |-> n]

\* pd.isna(v)
IsNa(v) == v.kind = "null"

\* str(v)
PyStr(v) ==
    CASE v.kind = "str" -> v.s
      [] v.kind = "int" -> StrOfInt(v.n)
      [] v.kind = "float" -> StrOfInt(v.n) \o <<".", "0">>
      [] OTHER -> <<"N", "o", "n", "e">>

\* The outcome of a call: a returned str, or a raised ValueError.
Returned(s) == [raised |-> FALSE, s |-> s]

Raised == [raised |-> TRUE, s |-> <<>>]

(***************************************************************************)
(* Field Normalizer (comparison.py).                                       *)
(***************************************************************************)
normalize_stock_number(stock_num) ==
    IF IsNa(stock_num) THEN Returned(<<>>)
    ELSE LET stock_str == Upper(Strip(PyStr(stock_num)))
         IN  IF IsDigitStr(stock_str)
             THEN IF IntParses(stock_str)
                  THEN Returned(StrOfInt(IntOf(stock_str)))
                  ELSE Raised
             ELSE Returned(stock_str)

\* a variant that removes the spaces only, as the docstring has it:
normalize_vin_spaces_only(vin) ==
    IF IsNa(vin) THEN Returned(<<>>)
    ELSE Returned(SelectSeq(Upper(Strip(PyStr(vin))), LAMBDA c : ~IsSpace(c)))

normalize_vin(vin) ==
    IF IsNa(vin) THEN Returned(<<>>)
    ELSE Returned(KeepAlnum(Upper(Strip(PyStr(vin)))))


(***************************************************************************)
(* Normalized record sets.  A frame has the semantic columns it carries    *)
(* and its rows; a row gives a value for stock_number, vin and status (the *)
(* value of a column the frame does not carry is never read).              *)
(***************************************************************************)
Frame(columns, rows) == [columns |-> columns, rows |-> rows]

RECURSIVE Flatten(_)
\* the concatenation of a sequence of sequences
Flatten(ss) == IF ss = <<>> THEN <<>> ELSE Head(ss) \o Flatten(Tail(ss))

\* Series.isnull().all()
AllNull(df, col) == \A i \in DOMAIN df.rows : IsNa(df.rows[i][col])

\* df[col].apply(normalize_stock_number): the calls' outcomes, row by row
StockKeys(df) == [i \in DOMAIN df.rows |-> normalize_stock_number(df.rows[i].stock_number)]

\* 'vin' in df.columns and not df['vin'].isnull().all()
HasVin(df) == "vin" \in df.columns /\ ~AllNull(df, "vin")

\* the vin_norm cell of row i: the normalized VIN, or NaN when the frame
\* got no vin_norm column
VinNorm(df, i) ==
    IF HasVin(df) THEN Str(normalize_vin(df.rows[i].vin).s) ELSE Null

\* the status cell of row i in the merged frame (NaN when the frame has no
\* status column)
StatusCell(df, i) == IF "status" \in df.columns THEN df.rows[i].status ELSE Null

\* One row of the merged frame.  vauto and reynolds give the source rows
\* (0: none), the cells of a side that is absent are NaN.
MergedRow(a, b, i, j, key) ==
    [_merge |-> IF i = 0 THEN "right_only" ELSE IF j = 0 THEN "left_only" ELSE "both",
     vauto |-> i,
     reynolds |-> j,
     stock_number_norm |-> key,
     vin_norm_vauto |-> IF i = 0 THEN Null ELSE VinNorm(a, i),
     vin_norm_reynolds |-> IF j = 0 THEN Null ELSE VinNorm(b, j),
     status_vauto |-> IF i = 0 THEN Null ELSE StatusCell(a, i),
     status_reynolds |-> IF j = 0 THEN Null ELSE StatusCell(b, j)]

\* the indices, in order, of the entries of keys equal to key
IndicesOf(keys, key) ==
    SelectSeq([i \in DOMAIN keys |-> i], LAMBDA i : keys[i] = key)

\* Variants of the merge, against which the properties of the join are
\* tested.  A merge that joins on the stock key and the VIN together:
MergeOnStockAndVin(a, b, ka, kb) ==
    LET ka2 == [i \in DOMAIN ka |-> <<ka[i], a.rows[i].vin>>]
        kb2 == [j \in DOMAIN kb |-> <<kb[j], b.rows[j].vin>>]
        LeftPart(i) ==
            LET js == IndicesOf(kb2, ka2[i])
            IN  IF js = <<>> THEN <<MergedRow(a, b, i, 0, ka[i])>>
                ELSE [n \in DOMAIN js |-> MergedRow(a, b, i, js[n], ka[i])]
        RightPart(j) ==
            IF IndicesOf(ka2, kb2[j]) = <<>> THEN <<MergedRow(a, b, 0, j, kb[j])>>
            ELSE <<>>
    IN  Flatten([i \in DOMAIN ka |-> LeftPart(i)])
            \o Flatten([j \in DOMAIN kb |-> RightPart(j)])

\* a merge that keeps one joined row per left row:
MergeFirstMatch(a, b, ka, kb) ==
    LET LeftPart(i) ==
            LET js == IndicesOf(kb, ka[i])
            IN  IF js = <<>> THEN <<MergedRow(a, b, i, 0, ka[i])>>
                ELSE <<MergedRow(a, b, i, js[1], ka[i])>>
        RightPart(j) ==
            IF IndicesOf(ka, kb[j]) = <<>> THEN <<MergedRow(a, b, 0, j, kb[j])>>
            ELSE <<>>
    IN  Flatten([i \in DOMAIN ka |-> LeftPart(i)])
            \o Flatten([j \in DOMAIN kb |-> RightPart(j)])

\* a merge in which an empty key matches nothing:
MergeSkipEmpty(a, b, ka, kb) ==
    LET LeftPart(i) ==
            LET js == IF ka[i] = <<>> THEN <<>> ELSE IndicesOf(kb, ka[i])
            IN  IF js = <<>> THEN <<MergedRow(a, b, i, 0, ka[i])>>
                ELSE [n \in DOMAIN js |-> MergedRow(a, b, i, js[n], ka[i])]
        RightPart(j) ==
            IF kb[j] = <<>> \/ IndicesOf(ka, kb[j]) = <<>>
            THEN <<MergedRow(a, b, 0, j, kb[j])>>
            ELSE <<>>
    IN  Flatten([i \in DOMAIN ka |-> LeftPart(i)])
            \o Flatten([j \in DOMAIN kb |-> RightPart(j)])

\* pd.merge(a, b, on='stock_number_norm', how='outer', indicator=True): each
\* left row with each right row of the same key, a left row without one
\* alone, then the right rows without a left row.  pandas orders the rows
\* of an outer merge by key; the order of rows is not modelled.
Merge(a, b, ka, kb) ==
    LET LeftPart(i) ==
            LET js == IndicesOf(kb, ka[i])
            IN  IF js = <<>> THEN <<MergedRow(a, b, i, 0, ka[i])>>
                ELSE [n \in DOMAIN js |-> MergedRow(a, b, i, js[n], ka[i])]
        RightPart(j) ==
            IF IndicesOf(ka, kb[j]) = <<>> THEN <<MergedRow(a, b, 0, j, kb[j])>>
            ELSE <<>>
    IN  Flatten([i \in DOMAIN ka |-> LeftPart(i)])
            \o Flatten([j \in DOMAIN kb |-> RightPart(j)])

\* merged_by_stock[merged_by_stock['_merge'] == which]
Category(merged, which) == SelectSeq(merged, LAMBDA r : r._merge = which)

\* a variant that does not exempt the empty normalized VINs:
VinMismatchesOfEmpty(a, b, exact_matches) ==
    IF HasVin(a) /\ HasVin(b) /\ exact_matches # <<>>
    THEN SelectSeq(exact_matches,
                   LAMBDA r : r.vin_norm_vauto # r.vin_norm_reynolds)
    ELSE <<>>

\* a variant that takes the mismatches from all pairs of a left and a right
\* row, joined or not:
VinMismatchesOfAllPairs(a, b, exact_matches) ==
    IF HasVin(a) /\ HasVin(b)
    THEN SelectSeq(Flatten([i \in DOMAIN a.rows |->
                              [j \in DOMAIN b.rows |->
                                  MergedRow(a, b, i, j, Str(<<>>))]]),
                   LAMBDA r : /\ r.vin_norm_vauto # r.vin_norm_reynolds
                              /\ r.vin_norm_vauto # Str(<<>>)
                              /\ r.vin_norm_reynolds # Str(<<>>))
    ELSE <<>>

\* the vin_mismatches frame
VinMismatches(a, b, exact_matches) ==
    IF HasVin(a) /\ HasVin(b) /\ exact_matches # <<>>
    THEN SelectSeq(exact_matches,
                   LAMBDA r : /\ r.vin_norm_vauto # r.vin_norm_reynolds
                              /\ r.vin_norm_vauto # Str(<<>>)
                              /\ r.vin_norm_reynolds # Str(<<>>))
    ELSE <<>>

\* a variant that compares the statuses without regard to case:
StatusMismatchesIgnoringCase(a, b, exact_matches) ==
    IF "status" \in a.columns /\ "status" \in b.columns
    THEN SelectSeq(exact_matches,
                   LAMBDA r : /\ ~IsNa(r.status_vauto)
                              /\ ~IsNa(r.status_reynolds)
                              /\ Upper(PyStr(r.status_vauto))
                                    # Upper(PyStr(r.status_reynolds)))
    ELSE <<>>

\* the status_mismatches frame
StatusMismatches(a, b, exact_matches) ==
    IF "status" \in a.columns /\ "status" \in b.columns
    THEN SelectSeq(exact_matches,
                   LAMBDA r : /\ ~IsNa(r.status_vauto)
                              /\ ~IsNa(r.status_reynolds)
                              /\ r.status_vauto # r.status_reynolds)
    ELSE <<>>

NoResults == [raised |-> FALSE, returned |-> FALSE]

\* compare_inventories: the returned dict, or the ValueError a key's
\* normalization raised
compare_inventories(a, b) ==
    LET ka == StockKeys(a)
        kb == StockKeys(b)
    IN  IF (\E i \in DOMAIN ka : ka[i].raised) \/ (\E j \in DOMAIN kb : kb[j].raised)
        THEN [raised |-> TRUE, returned |-> FALSE]
        ELSE
        LET merged_by_stock ==
                Merge(a, b, [i \in DOMAIN ka |-> ka[i].s], [j \in DOMAIN kb |-> kb[j].s])
            exact_matches == Category(merged_by_stock, "both")
            missing_in_reynolds == Category(merged_by_stock, "left_only")
            missing_in_vauto == Category(merged_by_stock, "right_only")
            vin_mismatches == VinMismatches(a, b, exact_matches)
            status_mismatches == StatusMismatches(a, b, exact_matches)
        IN  [raised |-> FALSE,
             returned |-> TRUE,
             exact_matches |-> exact_matches,
             missing_in_reynolds |-> missing_in_reynolds,
             missing_in_vauto |-> missing_in_vauto,
             vin_mismatches |-> vin_mismatches,
             status_mismatches |-> status_mismatches,
             summary |-> [total_vauto |-> Len(a.rows),
                          total_reynolds |-> Len(b.rows),
                          exact_matches |-> Len(exact_matches),
                          missing_in_reynolds |-> Len(missing_in_reynolds),
                          missing_in_vauto |-> Len(missing_in_vauto),
                          vin_mismatches |-> Len(vin_mismatches),
                          status_mismatches |-> Len(status_mismatches)]]

\* df['stock_number'].dropna().head(10).tolist()
StockSamples(df) ==
    LET present == SelectSeq([i \in DOMAIN df.rows |-> df.rows[i].stock_number],
                             LAMBDA v : ~IsNa(v))
    IN  SubSeq(present, 1, IF Len(present) < 10 THEN Len(present) ELSE 10)

\* analysis[key] = item
SetItem(dict, key, item) == (key :> item) @@ dict

\* the samples of a record set, under the key given
WithSamples(analysis_dict, key, df) ==
    IF "stock_number" \in df.columns
    THEN SetItem(analysis_dict, key, StockSamples(df))
    ELSE analysis_dict

\* "No exact matches found. Check stock number formats."
FormatWarning == <<"No exact matches found. Check stock number formats.">>

\* f"Found {n} stock numbers with different VINs."
VinWarning(n) == <<"Found ">> \o StrOfInt(n) \o <<" stock numbers with different VINs.">>

\* the first if on the summary
WarnNoExactMatches(analysis_dict, res) ==
    IF res.summary.exact_matches = 0
    THEN SetItem(analysis_dict, "warning", FormatWarning)
    ELSE analysis_dict

\* the second if on the summary, were a warning already set to be kept
WarnVinMismatchesKeepingFirst(analysis_dict, res) ==
    IF res.summary.vin_mismatches > 0 /\ "warning" \notin DOMAIN analysis_dict
    THEN SetItem(analysis_dict, "warning", VinWarning(res.summary.vin_mismatches))
    ELSE analysis_dict

\* the second if on the summary
WarnVinMismatches(analysis_dict, res) ==
    IF res.summary.vin_mismatches > 0
    THEN SetItem(analysis_dict, "warning", VinWarning(res.summary.vin_mismatches))
    ELSE analysis_dict

\* analyze_matching_quality: the returned dict
analyze_matching_quality(a, b, res) ==
    WarnVinMismatches(
        WarnNoExactMatches(
            WithSamples(WithSamples(<<>>, "vauto_stock_samples", a),
                        "reynolds_stock_samples", b),
            res),
        res)


(***************************************************************************)
(* Column Mapper (data_loaders.py).  A score is the exact fraction the     *)
(* float stands for, in lowest terms: 1.0 is 1/1, 0.8 is 4/5, the Jaccard  *)
(* similarity is intersection/union.                                       *)
(***************************************************************************)
\* the element of a set of one element.  {F(x) : x \in {e}} computes e
\* once and F on its value, as an assignment x = e followed by the
\* statements that use x does
TheOne(S) == CHOOSE x \in S : TRUE

RECURSIVE Gcd(_, _)
Gcd(m, n) == IF n = 0 THEN m ELSE Gcd(n, m % n)

Score(num, den) == [num |-> num \div Gcd(num, den), den |-> den \div Gcd(num, den)]

ScoreGreater(x, y) == x.num * y.den > y.num * x.den

ScoreAtLeast(x, y) == x.num * y.den >= y.num * x.den

\* the regular expression class \w of one character
IsWordChar(c) == IsAlnum(c) \/ c = "_"

RECURSIVE CollapseSpaces(_)
\* re.sub(r'\s+', ' ', s)
CollapseSpaces(s) ==
    IF s = <<>> THEN <<>>
    ELSE IF IsSpace(Head(s))
         THEN <<" ">> \o CollapseSpaces(LStrip(s))
         ELSE <<Head(s)>> \o CollapseSpaces(Tail(s))

normalize_column_name(col_name) ==
    IF IsNa(col_name) THEN <<>>
    ELSE LET col_str == Lower(Strip(PyStr(col_name)))
             spaced == [i \in DOMAIN col_str |->
                          IF IsWordChar(col_str[i]) \/ IsSpace(col_str[i])
                          THEN col_str[i] ELSE " "]
         IN  Strip(CollapseSpaces(spaced))

\* x in y, for two str
IsSubstring(x, y) ==
    \E k \in 0..(Len(y) - Len(x)) : SubSeq(y, k + 1, k + Len(x)) = x

RECURSIVE Words(_)
\* set(s.split())
Words(s) ==
    LET t == LStrip(s)
    IN  IF t = <<>> THEN {}
        ELSE LET n == IF \E i \in DOMAIN t : IsSpace(t[i])
                      THEN (CHOOSE i \in DOMAIN t :
                               IsSpace(t[i]) /\ \A k \in 1..(i - 1) : ~IsSpace(t[k])) - 1
                      ELSE Len(t)
             IN  {SubSeq(t, 1, n)} \cup Words(SubSeq(t, n + 1, Len(t)))

\* the word comparison of calculate_similarity_score
WordSimilarity(target_words, candidate_words) ==
    IF target_words = {} \/ candidate_words = {} THEN Score(0, 1)
    ELSE IF target_words \cup candidate_words # {}
         THEN Score(Cardinality(target_words \cap candidate_words),
                    Cardinality(target_words \cup candidate_words))
    ELSE Score(0, 1)

\* a variant without the substring rule:
NormSimilarityWordsOnly(target_norm, candidate_norm) ==
    IF target_norm = candidate_norm THEN Score(1, 1)
    ELSE TheOne({WordSimilarity(target_words, candidate_words) :
                    target_words \in {Words(target_norm)},
                    candidate_words \in {Words(candidate_norm)}})

\* the comparisons of calculate_similarity_score, on the two normalized names
NormSimilarity(target_norm, candidate_norm) ==
    IF target_norm = candidate_norm THEN Score(1, 1)
    ELSE IF IsSubstring(target_norm, candidate_norm)
              \/ IsSubstring(candidate_norm, target_norm) THEN Score(4, 5)
    ELSE TheOne({WordSimilarity(target_words, candidate_words) :
                    target_words \in {Words(target_norm)},
                    candidate_words \in {Words(candidate_norm)}})

calculate_similarity_score(target, candidate) ==
    TheOne({NormSimilarity(target_norm, candidate_norm) :
               target_norm \in {normalize_column_name(target)},
               candidate_norm \in {normalize_column_name(candidate)}})

\* the default of find_best_column_match's min_similarity, 0.3
MinSimilarity == Score(3, 10)

\* the (target, column) pairs in the order the two loops visit them
LoopPairs(target_names, available_columns) ==
    Flatten([t \in DOMAIN target_names |->
                [c \in DOMAIN available_columns |->
                    [target |-> target_names[t], col |-> available_columns[c]]]])

\* the if of the inner loop's body, were a later equal score to replace the best
BestUpdateOnEqual(best, col, score, min_similarity) ==
    IF ScoreAtLeast(score, best.best_score) /\ ScoreAtLeast(score, min_similarity)
    THEN [best_match |-> col, best_score |-> score]
    ELSE best

\* the if of the inner loop's body
BestUpdate(best, col, score, min_similarity) ==
    IF ScoreGreater(score, best.best_score) /\ ScoreAtLeast(score, min_similarity)
    THEN [best_match |-> col, best_score |-> score]
    ELSE best

\* one pass of the inner loop's body
BestStep(best, pair, min_similarity) ==
    TheOne({BestUpdate(best, pair.col, score, min_similarity) :
               score \in {calculate_similarity_score(pair.target, pair.col)}})

RECURSIVE BestOver(_, _, _)
BestOver(best, pairs, min_similarity) ==
    IF pairs = <<>> THEN best
    ELSE TheOne({BestOver(next, rest, min_similarity) :
                    next \in {BestStep(best, Head(pairs), min_similarity)},
                    rest \in {Tail(pairs)}})

find_best_column_match(target_names, available_columns, min_similarity) ==
    TheOne({BestOver([best_match |-> Null, best_score |-> Score(0, 1)],
                     pairs, min_similarity) :
               pairs \in {LoopPairs(target_names, available_columns)}})

\* the truth value of a column name or None in an if
Truthy(v) ==
    CASE v.kind = "str" -> v.s # <<>>
      [] v.kind = "int" -> v.n # 0
      [] v.kind = "float" -> v.n # 0
      [] OTHER -> FALSE

RECURSIVE KeysOf(_)
\* the keys of a dict, one after the other (the model fixes an order; each
\* key's entry is computed from that key alone)
KeysOf(keys) ==
    IF keys = {} THEN <<>>
    ELSE LET k == CHOOSE k \in keys : TRUE
         IN  <<k>> \o KeysOf(keys \ {k})

\* the if of the loop over standard_columns.items()
DetectEntry(acc, std_col, found) ==
    IF Truthy(found.best_match)
    THEN [mapping |-> acc.mapping @@ (std_col :> found.best_match),
          confidence_scores |-> acc.confidence_scores @@ (std_col :> found.best_score)]
    ELSE [mapping |-> acc.mapping @@ (std_col :> Null),
          confidence_scores |-> acc.confidence_scores @@ (std_col :> Score(0, 1))]

\* one pass of the loop over standard_columns.items()
DetectStep(acc, std_col, possible_names, columns) ==
    TheOne({DetectEntry(acc, std_col, found) :
               found \in {find_best_column_match(possible_names, columns, MinSimilarity)}})

RECURSIVE DetectLoop(_, _, _, _)
DetectLoop(acc, keys, std_columns, columns) ==
    IF keys = <<>> THEN acc
    ELSE TheOne({DetectLoop(next, rest, std_columns, columns) :
                    next \in {DetectStep(acc, Head(keys), std_columns[Head(keys)], columns)},
                    rest \in {Tail(keys)}})

\* the dict auto_detect_column_mapping returns
DetectionResult(filled, columns) ==
    [mapping |-> filled.mapping,
     confidence_scores |-> filled.confidence_scores,
     available_columns |-> columns]

auto_detect_column_mapping(std_columns, columns) ==
    TheOne({DetectionResult(filled, columns) :
               filled \in {DetectLoop([mapping |-> <<>>, confidence_scores |-> <<>>],
                                      KeysOf(DOMAIN std_columns), std_columns, columns)}})

(***************************************************************************)
(* Loaders (data_loaders.py) and their configuration (config.py).          *)
(***************************************************************************)
\* the keys of the loaders' standard_columns, in the dict's order
StandardFields ==
    <<"stock_number", "vin", "store", "status", "year", "make", "model", "type">>

\* standard_columns of load_vauto_inventory
VautoStandardColumns ==
    [stock_number |->
        <<Str(<<"S", "t", "o", "c", "k", " ", "#">>),
          Str(<<"S", "t", "o", "c", "k", " ", "N", "u", "m", "b", "e", "r">>),
          Str(<<"S", "t", "o", "c", "k", "#">>),
          Str(<<"S", "t", "o", "c", "k", "N", "u", "m">>),
          Str(<<"S", "t", "o", "c", "k">>),
          Str(<<"S", "t", "o", "c", "k", " ", "N", "o">>),
          Str(<<"S", "t", "o", "c", "k", " ", "N", "u", "m", "b", "e", "r">>)>>,
     vin |->
        <<Str(<<"V", "I", "N">>),
          Str(<<"V", "e", "h", "i", "c", "l", "e", " ", "I", "d", "e", "n", "t", "i", "f", "i", "c", "a", "t", "i", "o", "n", " ", "N", "u", "m", "b", "e", "r">>),
          Str(<<"V", "e", "h", "i", "c", "l", "e", " ", "I", "D">>),
          Str(<<"V", "I", "N", " ", "N", "u", "m", "b", "e", "r">>)>>,
     store |->
        <<Str(<<"D", "e", "a", "l", "e", "r", " ", "N", "a", "m", "e">>),
          Str(<<"S", "t", "o", "r", "e">>),
          Str(<<"L", "o", "c", "a", "t", "i", "o", "n">>),
          Str(<<"D", "e", "a", "l", "e", "r">>),
          Str(<<"D", "e", "a", "l", "e", "r", "s", "h", "i", "p">>),
          Str(<<"S", "t", "o", "r", "e", " ", "N", "a", "m", "e">>),
          Str(<<"D", "e", "a", "l", "e", "r", " ", "L", "o", "c", "a", "t", "i", "o", "n">>)>>,
     status |->
        <<Str(<<"S", "t", "a", "t", "u", "s">>),
          Str(<<"V", "e", "h", "i", "c", "l", "e", " ", "S", "t", "a", "t", "u", "s">>),
          Str(<<"C", "a", "r", " ", "S", "t", "a", "t", "u", "s">>),
          Str(<<"I", "n", "v", "e", "n", "t", "o", "r", "y", " ", "S", "t", "a", "t", "u", "s">>)>>,
     year |->
        <<Str(<<"Y", "e", "a", "r">>),
          Str(<<"M", "o", "d", "e", "l", " ", "Y", "e", "a", "r">>),
          Str(<<"V", "e", "h", "i", "c", "l", "e", " ", "Y", "e", "a", "r">>)>>,
     make |->
        <<Str(<<"M", "a", "k", "e">>),
          Str(<<"M", "a", "n", "u", "f", "a", "c", "t", "u", "r", "e", "r">>),
          Str(<<"B", "r", "a", "n", "d">>)>>,
     model |->
        <<Str(<<"M", "o", "d", "e", "l">>),
          Str(<<"V", "e", "h", "i", "c", "l", "e", " ", "M", "o", "d", "e", "l">>),
          Str(<<"C", "a", "r", " ", "M", "o", "d", "e", "l">>)>>,
     type |->
        <<Str(<<"T", "y", "p", "e">>),
          Str(<<"I", "n", "v", "e", "n", "t", "o", "r", "y", " ", "T", "y", "p", "e">>),
          Str(<<"N", "e", "w", "/", "U", "s", "e", "d">>),
          Str(<<"N", "/", "U">>),
          Str(<<"V", "e", "h", "i", "c", "l", "e", " ", "T", "y", "p", "e">>)>>]

\* standard_columns of load_reynolds_inventory
ReynoldsStandardColumns ==
    [stock_number |->
        <<Str(<<"S", "t", "o", "c", "k", " ", "#">>),
          Str(<<"S", "t", "o", "c", "k", " ", "N", "u", "m", "b", "e", "r">>),
          Str(<<"S", "t", "o", "c", "k", "#">>),
          Str(<<"S", "t", "o", "c", "k", "N", "u", "m">>),
          Str(<<"S", "t", "o", "c", "k">>),
          Str(<<"S", "t", "o", "c", "k", " ", "N", "o">>),
          Str(<<"S", "t", "o", "c", "k", " ", "N", "u", "m", "b", "e", "r">>)>>,
     vin |->
        <<Str(<<"V", "I", "N">>),
          Str(<<"V", "e", "h", "i", "c", "l", "e", " ", "I", "d", "e", "n", "t", "i", "f", "i", "c", "a", "t", "i", "o", "n", " ", "N", "u", "m", "b", "e", "r">>),
          Str(<<"V", "e", "h", "i", "c", "l", "e", " ", "I", "D">>),
          Str(<<"V", "I", "N", " ", "N", "u", "m", "b", "e", "r">>)>>,
     store |->
        <<Str(<<"S", "t", "o", "r", "e">>),
          Str(<<"D", "e", "a", "l", "e", "r">>),
          Str(<<"D", "e", "a", "l", "e", "r", "s", "h", "i", "p">>),
          Str(<<"S", "t", "o", "r", "e", " ", "N", "a", "m", "e">>),
          Str(<<"D", "e", "a", "l", "e", "r", " ", "N", "a", "m", "e">>)>>,
     status |->
        <<Str(<<"S", "t", "a", "t", "u", "s">>),
          Str(<<"V", "e", "h", "i", "c", "l", "e", " ", "S", "t", "a", "t", "u", "s">>),
          Str(<<"C", "a", "r", " ", "S", "t", "a", "t", "u", "s">>),
          Str(<<"I", "n", "v", "e", "n", "t", "o", "r", "y", " ", "S", "t", "a", "t", "u", "s">>)>>,
     year |->
        <<Str(<<"Y", "e", "a", "r">>),
          Str(<<"M", "o", "d", "e", "l", " ", "Y", "e", "a", "r">>),
          Str(<<"V", "e", "h", "i", "c", "l", "e", " ", "Y", "e", "a", "r">>)>>,
     make |->
        <<Str(<<"M", "a", "k", "e">>),
          Str(<<"M", "a", "n", "u", "f", "a", "c", "t", "u", "r", "e", "r">>),
          Str(<<"B", "r", "a", "n", "d">>)>>,
     model |->
        <<Str(<<"M", "o", "d", "e", "l">>),
          Str(<<"V", "e", "h", "i", "c", "l", "e", " ", "M", "o", "d", "e", "l">>),
          Str(<<"C", "a", "r", " ", "M", "o", "d", "e", "l">>)>>,
     type |->
        <<Str(<<"N", "/", "U">>),
          Str(<<"T", "y", "p", "e">>),
          Str(<<"I", "n", "v", "e", "n", "t", "o", "r", "y", " ", "T", "y", "p", "e">>),
          Str(<<"N", "e", "w", "/", "U", "s", "e", "d">>),
          Str(<<"V", "e", "h", "i", "c", "l", "e", " ", "T", "y", "p", "e">>)>>]

VAUTO_COLUMNS_USED ==
    [stock_number |-> Str(<<"S", "t", "o", "c", "k", " ", "#">>),
     vin |-> Str(<<"V", "I", "N">>),
     store |-> Str(<<"D", "e", "a", "l", "e", "r", " ", "N", "a", "m", "e">>)]

VAUTO_COLUMNS_NEW ==
    [stock_number |-> Str(<<"S", "t", "o", "c", "k", " ", "#">>),
     vin |-> Str(<<"V", "I", "N">>),
     status |-> Str(<<"S", "t", "a", "t", "u", "s">>),
     store |-> Str(<<"D", "e", "a", "l", "e", "r", " ", "N", "a", "m", "e">>)]

\* the module's second assignment of REYNOLDS_COLUMNS is the one in force
REYNOLDS_COLUMNS ==
    [stock_number |-> Str(<<"S", "t", "o", "c", "k", " ", "#">>),
     status |-> Str(<<"S", "t", "a", "t", "u", "s">>)]

REYNOLDS_COLUMNS_NEW ==
    [stock_number |-> Str(<<"S", "t", "o", "c", "k", " ", "#">>),
     status |-> Str(<<"S", "t", "a", "t", "u", "s">>)]

\* the keys of a configured mapping, in the order of StandardFields (the
\* order of the frame's columns is not part of any property checked)
ConfigFields(columns) == SelectSeq(StandardFields, LAMBDA f : f \in DOMAIN columns)

\* df[file_col]: the cells of the column of that name, row by row
ColumnOf(df, file_col) ==
    LET c == CHOOSE c \in DOMAIN df.columns : df.columns[c] = file_col
    IN  [r \in DOMAIN df.rows |-> df.rows[r][c]]

NoSeries == [scalar |-> TRUE, cells |-> <<>>]

Series(cells) == [scalar |-> FALSE, cells |-> cells]

\* pd.DataFrame(norm) of a dict whose values are Series of the raw table or
\* the scalar None: the scalars are broadcast over the Series' rows, and a
\* dict of scalars only raises ValueError
DataFrameOf(fields, norm, nrows) ==
    IF DOMAIN norm # {} /\ \A std_col \in DOMAIN norm : norm[std_col].scalar
    THEN [raised |-> TRUE]
    ELSE [raised |-> FALSE,
          columns |-> fields,
          rows |-> IF fields = <<>> THEN <<>>
                   ELSE [r \in 1..nrows |->
                           [f \in Range(fields) |->
                              IF norm[f].scalar THEN Null ELSE norm[f].cells[r]]]]

\* analyze_column_content: the row count and the count of non-null cells
\* (its other entries describe the same cells)
analyze_column_content(df, column) ==
    LET cells == ColumnOf(df, column)
    IN  [total_rows |-> Len(df.rows),
         non_null_count |-> Cardinality({r \in DOMAIN cells : ~IsNa(cells[r])})]

LoadError == [raised |-> TRUE]

\* norm[std_col] of one item of the mapping: the Series of the raw column of
\* a field that has one, None for the others
NormEntry(file_col, df, auto_map) ==
    IF (IF auto_map THEN Truthy(file_col) ELSE file_col \in Range(df.columns))
    THEN Series(ColumnOf(df, file_col))
    ELSE NoSeries

RECURSIVE NormLoop(_, _, _, _, _)
\* the loop over the items of the mapping that fills norm
NormLoop(norm, keys, columns, df, auto_map) ==
    IF keys = <<>> THEN norm
    ELSE TheOne({NormLoop(next, rest, columns, df, auto_map) :
                    next \in {norm @@ (Head(keys) :>
                                 NormEntry(columns[Head(keys)], df, auto_map))},
                    rest \in {Tail(keys)}})

\* the frame the loaders return, with its attrs
Loaded(result_df, attrs) ==
    IF result_df.raised THEN LoadError
    ELSE [raised |-> FALSE,
          columns |-> result_df.columns,
          rows |-> result_df.rows,
          attrs |-> attrs]

\* result_df.attrs of the auto-mapped path
AttrsOf(detection_result, df) ==
    [column_mapping |-> detection_result.mapping,
     confidence_scores |-> detection_result.confidence_scores,
     missing_columns |->
         SelectSeq(StandardFields, LAMBDA col : IsNa(detection_result.mapping[col])),
     original_columns |-> df.columns,
     column_analysis |->
         [c \in DOMAIN df.columns |-> analyze_column_content(df, df.columns[c])]]

\* the auto-mapped path, after the detection
LoadDetected(detection_result, df) ==
    TheOne({Loaded(DataFrameOf(StandardFields, norm, Len(df.rows)),
                   AttrsOf(detection_result, df)) :
               norm \in {NormLoop(<<>>, KeysOf(DOMAIN detection_result.mapping),
                                  detection_result.mapping, df, TRUE)}})

\* the body of load_vauto_inventory and of load_reynolds_inventory, which
\* differ in standard_columns and in the configured columns only
LoadInventory(std_columns, columns, df, auto_map) ==
    IF ~df.readable THEN LoadError
    ELSE IF auto_map
    THEN TheOne({LoadDetected(detection_result, df) :
                    detection_result \in
                        {auto_detect_column_mapping(std_columns, df.columns)}})
    ELSE TheOne({Loaded(DataFrameOf(ConfigFields(columns), norm, Len(df.rows)), <<>>) :
                    norm \in {NormLoop(<<>>, KeysOf(DOMAIN columns), columns, df, FALSE)}})

load_vauto_inventory(df, is_new, auto_map) ==
    LoadInventory(VautoStandardColumns,
                  IF is_new THEN VAUTO_COLUMNS_NEW ELSE VAUTO_COLUMNS_USED,
                  df, auto_map)

load_reynolds_inventory(df, is_new, auto_map) ==
    LoadInventory(ReynoldsStandardColumns,
                  IF is_new THEN REYNOLDS_COLUMNS_NEW ELSE REYNOLDS_COLUMNS,
                  df, auto_map)

(***************************************************************************)
(* Inputs of the model.                                                    *)
(***************************************************************************)
STR7 == Str(<<"7">>)

STR007 == Str(<<"0", "0", "7">>)

STRA == Str(<<"a">>)

STR1A == Str(<<"1", "a">>)

STR1AU == Str(<<"1", "A", "-">>)

STR2 == Str(<<"2">>)

EXVIN == Str(<<"1", "H", "G", "C", "M", "8", "2", "6", "3", "3", "A", "0", "0", "4", "3", "5", "2">>)

EXVINRAW == Str(<<" ", "1", "h", "g", "c", "m", "8", "2", "6", "3", "3", "a", "-", "0", "0", "4", "3", "5", "2", " ">>)

NAME_A == Str(<<"a">>)

NAME_A_B == Str(<<"a", " ", "b">>)

NAME_B_A == Str(<<"b", " ", "a">>)

NAME_A_B_C == Str(<<"a", " ", "b", " ", "c">>)

NAME_A_UP == Str(<<"A", " ">>)

NAME_A_D == Str(<<"a", " ", "d">>)

NAME_HASH == Str(<<"#">>)

COL_STOCK == Str(<<"S", "t", "o", "c", "k", " ", "#">>)

COL_VIN == Str(<<"V", "I", "N">>)

COL_NOTES == Str(<<"N", "o", "t", "e", "s">>)

STAVAIL == Str(<<"A", "v", "a", "i", "l", "a", "b", "l", "e">>)

STSOLD == Str(<<"S", "o", "l", "d">>)

STSOLDL == Str(<<"s", "o", "l", "d">>)

\* the strings over chars of at most n characters
RECURSIVE StringsUpTo(_, _)
StringsUpTo(chars, n) ==
    IF n = 0 THEN {<<>>}
    ELSE LET shorter == StringsUpTo(chars, n - 1)
         IN  shorter \cup {Append(s, c) : s \in shorter, c \in chars}

\* the sequences over S of exactly n elements
RECURSIVE SeqsOfLen(_, _)
SeqsOfLen(S, n) ==
    IF n = 0 THEN {<<>>}
    ELSE {Append(s, x) : s \in SeqsOfLen(S, n - 1), x \in S}

FieldChars == {"0", "7", "a", "A", " ", "-", "sup2"}

\* the stock numbers and the VINs of the documented examples
ExampleValues ==
    {Str(<<"0", "0", "4", "2">>),
     Str(<<"4", "2">>),
     Str(<<"0">>),
     Str(<<" ", "1", "h", "g", "c", "m", "8", "2", "6", "3", "3", "a", "-", "0", "0", "4", "3", "5", "2", " ">>),
     Str(<<"1", "H", "G", "C", "M", "8", "2", "6", "3", "3", "A", "0", "0", "4", "3", "5", "2">>)}

FieldValues ==
    {Null} \cup {Str(s) : s \in StringsUpTo(FieldChars, MaxLen)}
           \cup {IntVal(n) : n \in 0..MaxNumber}
           \cup {FloatVal(n) : n \in 0..MaxNumber}
           \cup ExampleValues

NoFrame == Frame({}, <<>>)

NoTable == [readable |-> FALSE, columns |-> <<>>, rows |-> <<>>]

IdleNormalizer == value = Null /\ stock_norm = <<>> /\ vin_norm = <<>>

\* no analysis made
NoAnalysis == [made |-> FALSE]

IdleReconcile ==
    /\ df_vauto = NoFrame /\ df_reynolds = NoFrame
    /\ results = NoResults /\ analysis = NoAnalysis

IdleMapper ==
    /\ standard_columns = <<>> /\ df_columns = <<>>
    /\ detection = <<>> /\ best_found = <<>>

IdleScorer == name_pair = <<>> /\ similarity = <<>>

IdleLoader == raw_df = NoTable /\ loaded = <<>>

\* the sequences over S of at most n elements
SeqsUpTo(S, n) == UNION {SeqsOfLen(S, k) : k \in 0..n}

Row(stock_number, vin, status) ==
    [stock_number |-> stock_number, vin |-> vin, status |-> status]

\* Families of rows the record sets are drawn from: the stock numbers that
\* decide the join, a stock number normalize_stock_number raises on, the
\* VINs and the statuses of rows that join, and rows for the record sets
\* that lack a column.
JoinRows ==
    {Row(s, STR1A, Null) : s \in {Null, Str(<<>>), STR7, STRA}}
    \cup {Row(s, STR2, Null) : s \in {Str(<<>>), STR7, STR007}}

RaisingRows == {Row(Str(<<"sup2">>), STR1A, Null), Row(STR7, STR1A, Null)}

VinRows ==
    {Row(STR7, v, Null) : v \in {Null, Str(<<"-">>), STR1A, STR1AU, STR2}}
    \cup {Row(STRA, STR2, Null)}

StatusRows ==
    {Row(STR7, EXVIN, st) : st \in {Null, STAVAIL, STSOLD, STSOLDL}}
    \cup {Row(STR007, EXVIN, STAVAIL), Row(STRA, EXVIN, STSOLD)}

MixedRows ==
    {Row(STR7, STR1A, STSOLD), Row(STR7, STR2, STAVAIL), Row(STR7, STR2, STSOLD)}

AllColumns == {"stock_number", "vin", "status"}

\* the columns of the record sets the loaders build: all of them with
\* auto_map, the configured ones without
ColumnSets == {AllColumns, {"stock_number", "vin"}, {"stock_number", "status"}}

\* a row as a frame of these columns holds it
Project(row, columns) ==
    Row(row.stock_number,
        IF "vin" \in columns THEN row.vin ELSE Null,
        IF "status" \in columns THEN row.status ELSE Null)

FramesOf(rowset, columns, n) ==
    {Frame(columns, [i \in DOMAIN rows |-> Project(rows[i], columns)]) :
        rows \in SeqsOfLen(rowset, n)}

(***************************************************************************)
(* The normalizers applied to a field value, and to their own result.      *)
(***************************************************************************)
NormalizeStock ==
    /\ stock_norm = <<>>
    /\ stock_norm' = <<normalize_stock_number(value)>>
    /\ UNCHANGED <<value, vin_norm, df_vauto, df_reynolds, results,
                   standard_columns, df_columns, detection, raw_df, loaded,
                   name_pair, similarity, best_found, analysis>>

RenormalizeStock ==
    /\ Len(stock_norm) = 1
    /\ ~stock_norm[1].raised
    /\ stock_norm' = Append(stock_norm, normalize_stock_number(Str(stock_norm[1].s)))
    /\ UNCHANGED <<value, vin_norm, df_vauto, df_reynolds, results,
                   standard_columns, df_columns, detection, raw_df, loaded,
                   name_pair, similarity, best_found, analysis>>

NormalizeVin ==
    /\ vin_norm = <<>>
    /\ vin_norm' = <<normalize_vin(value)>>
    /\ UNCHANGED <<value, stock_norm, df_vauto, df_reynolds, results,
                   standard_columns, df_columns, detection, raw_df, loaded,
                   name_pair, similarity, best_found, analysis>>

RenormalizeVin ==
    /\ Len(vin_norm) = 1
    /\ ~vin_norm[1].raised
    /\ vin_norm' = Append(vin_norm, normalize_vin(Str(vin_norm[1].s)))
    /\ UNCHANGED <<value, stock_norm, df_vauto, df_reynolds, results,
                   standard_columns, df_columns, detection, raw_df, loaded,
                   name_pair, similarity, best_found, analysis>>

(***************************************************************************)
(* Reconciliation of two record sets.                                      *)
(***************************************************************************)
Compare ==
    /\ results = NoResults
    /\ results' = compare_inventories(df_vauto, df_reynolds)
    /\ UNCHANGED <<value, stock_norm, vin_norm, df_vauto, df_reynolds,
                   standard_columns, df_columns, detection, raw_df, loaded,
                   name_pair, similarity, best_found, analysis>>

\* one call of analyze_matching_quality on the record sets and a result
Analyze ==
    /\ results.returned
    /\ analysis = NoAnalysis
    /\ analysis' = [made |-> TRUE,
                    dict |-> analyze_matching_quality(df_vauto, df_reynolds, results)]
    /\ UNCHANGED <<value, stock_norm, vin_norm, df_vauto, df_reynolds, results,
                   standard_columns, df_columns, detection, raw_df, loaded,
                   name_pair, similarity, best_found>>

(***************************************************************************)
(* The mapper applied to a dictionary of aliases and a list of raw column  *)
(* names, and the loaders applied to a table.                              *)
(***************************************************************************)
Detect ==
    /\ Len(detection) < 2
    /\ detection' = Append(detection,
                           auto_detect_column_mapping(standard_columns, df_columns))
    /\ UNCHANGED <<value, stock_norm, vin_norm, df_vauto, df_reynolds, results,
                   standard_columns, df_columns, raw_df, loaded,
                   name_pair, similarity, best_found, analysis>>

\* one call of find_best_column_match for the aliases of one field
FindBest ==
    /\ best_found = <<>>
    /\ \E std_col \in DOMAIN standard_columns :
         best_found' = <<[std_col |-> std_col,
                          found |-> find_best_column_match(standard_columns[std_col],
                                                           df_columns, MinSimilarity)]>>
    /\ UNCHANGED <<value, stock_norm, vin_norm, df_vauto, df_reynolds, results,
                   standard_columns, df_columns, detection, raw_df, loaded,
                   name_pair, similarity, analysis>>

\* the score of one alias and one raw column name
ScorePair ==
    /\ similarity = <<>>
    /\ similarity' = <<calculate_similarity_score(name_pair.target, name_pair.candidate)>>
    /\ UNCHANGED <<value, stock_norm, vin_norm, df_vauto, df_reynolds, results,
                   standard_columns, df_columns, detection, raw_df, loaded,
                   name_pair, best_found, analysis>>

LoadVauto ==
    /\ loaded = <<>>
    /\ \E is_new \in BOOLEAN, auto_map \in BOOLEAN :
         loaded' = <<[loader |-> "vauto", is_new |-> is_new, auto_map |-> auto_map,
                      outcome |-> load_vauto_inventory(raw_df, is_new, auto_map)]>>
    /\ UNCHANGED <<value, stock_norm, vin_norm, df_vauto, df_reynolds, results,
                   standard_columns, df_columns, detection, raw_df,
                   name_pair, similarity, best_found, analysis>>

LoadReynolds ==
    /\ loaded = <<>>
    /\ \E is_new \in BOOLEAN, auto_map \in BOOLEAN :
         loaded' = <<[loader |-> "reynolds", is_new |-> is_new, auto_map |-> auto_map,
                      outcome |-> load_reynolds_inventory(raw_df, is_new, auto_map)]>>
    /\ UNCHANGED <<value, stock_norm, vin_norm, df_vauto, df_reynolds, results,
                   standard_columns, df_columns, detection, raw_df,
                   name_pair, similarity, best_found, analysis>>

\* the aliases and the raw column names the mapper is given
AliasNames == {NAME_A, NAME_A_B, NAME_A_B_C}

ColumnNames ==
    {NAME_A_UP, NAME_A_B, NAME_B_A, NAME_A_D, NAME_HASH, Str(<<>>), IntVal(0)}

\* the characters of the names the score is given: letters of both cases,
\* a space, a punctuation character and the underscore
ScoreChars == {"a", "b", "A", " ", "#", "_"}

\* the aliases and the raw column names the score is given
ScoreTargets ==
    {NAME_A, NAME_A_B, NAME_B_A, NAME_A_B_C, NAME_HASH, COL_STOCK,
     Str(<<"a", "_", "b">>), Null}

ScoreCandidates ==
    {Str(s) : s \in StringsUpTo(ScoreChars, MaxLen)}
    \cup {NAME_A_B_C, NAME_A_D, COL_STOCK, COL_VIN, Null, IntVal(0), IntVal(7)}

\* the dictionaries of aliases: none, one or two semantic fields
\* the lists of at most n different names of S: the aliases of a field are
\* different names, and read_csv gives the columns of a table different names
NameLists(S, n) ==
    {list \in SeqsUpTo(S, n) :
        \A i, j \in DOMAIN list : list[i] = list[j] => i = j}

AliasDictionaries ==
    {<<>>}
    \cup {[stock_number |-> names] : names \in NameLists(AliasNames, MaxNames)}
    \cup {[stock_number |-> <<name>>, vin |-> more] :
             name \in AliasNames, more \in {<<>>, <<NAME_A>>}}

\* the column names of the tables the loaders are given
TableColumnNames == {COL_STOCK, COL_VIN, COL_NOTES, NAME_HASH}

CellValues == {Null, STR7}

\* the tables a file can hold: distinct column names, and rows of one cell
\* per column
Tables ==
    UNION {{[readable |-> TRUE, columns |-> columns, rows |-> rows] :
               rows \in IF columns = <<>> THEN {<<>>}
                        ELSE SeqsUpTo(SeqsOfLen(CellValues, Len(columns)), MaxTable)} :
           columns \in {cs \in SeqsUpTo(TableColumnNames, MaxTable) :
                           \A i, j \in DOMAIN cs : cs[i] = cs[j] => i = j}}

(***************************************************************************)
(* Specifications.                                                         *)
(***************************************************************************)
InitNorm ==
    /\ value \in FieldValues
    /\ stock_norm = <<>>
    /\ vin_norm = <<>>
    /\ IdleReconcile /\ IdleMapper /\ IdleScorer /\ IdleLoader

NextNorm == NormalizeStock \/ RenormalizeStock \/ NormalizeVin \/ RenormalizeVin

SpecNorm == InitNorm /\ [][NextNorm]_vars

InitReconcile ==
    /\ \E na \in 0..MaxRows : \E nb \in 0..(MaxRows - na) :
         \/ \E rowset \in {JoinRows, RaisingRows, VinRows, StatusRows} :
              /\ df_vauto \in FramesOf(rowset, AllColumns, na)
              /\ df_reynolds \in FramesOf(rowset, AllColumns, nb)
         \/ \E ca \in ColumnSets, cb \in ColumnSets :
              /\ df_vauto \in FramesOf(MixedRows, ca, na)
              /\ df_reynolds \in FramesOf(MixedRows, cb, nb)
    /\ results = NoResults
    /\ analysis = NoAnalysis
    /\ IdleNormalizer /\ IdleMapper /\ IdleScorer /\ IdleLoader

NextReconcile == Compare \/ Analyze

SpecReconcile == InitReconcile /\ [][NextReconcile]_vars

\* the rows of the record sets analyze_matching_quality is given
SampleRows == {Row(STR7, STR1A, Null), Row(Null, STR2, Null)}

\* the record sets analyze_matching_quality is given: of rows with and
\* without a stock number, and one without the stock_number column
SampleFrames ==
    UNION {FramesOf(SampleRows, AllColumns, n) : n \in 0..MaxRows}
    \cup {NoFrame, Frame({"vin"}, <<Row(Null, STR1A, Null)>>)}

\* the results analyze_matching_quality is given: any counts in the summary
SampleResults ==
    {[raised |-> FALSE, returned |-> TRUE,
      summary |-> [exact_matches |-> exact, vin_mismatches |-> vin]] :
        exact \in 0..MaxRows, vin \in 0..MaxRows}

InitAnalyze ==
    /\ df_vauto \in SampleFrames
    /\ df_reynolds \in SampleFrames
    /\ results \in SampleResults
    /\ analysis = NoAnalysis
    /\ IdleNormalizer /\ IdleMapper /\ IdleScorer /\ IdleLoader

NextAnalyze == Analyze

SpecAnalyze == InitAnalyze /\ [][NextAnalyze]_vars



InitMap ==
    /\ standard_columns \in AliasDictionaries
    /\ df_columns \in NameLists(ColumnNames, MaxNames)
    /\ detection = <<>>
    /\ best_found = <<>>
    /\ IdleNormalizer /\ IdleReconcile /\ IdleScorer /\ IdleLoader

NextMap == Detect \/ FindBest

SpecMap == InitMap /\ [][NextMap]_vars

InitScore ==
    /\ name_pair \in [target : ScoreTargets, candidate : ScoreCandidates]
    /\ similarity = <<>>
    /\ IdleNormalizer /\ IdleReconcile /\ IdleMapper /\ IdleLoader

NextScore == ScorePair

SpecScore == InitScore /\ [][NextScore]_vars

InitLoad ==
    /\ raw_df \in {NoTable} \cup Tables
    /\ loaded = <<>>
    /\ IdleNormalizer /\ IdleReconcile /\ IdleMapper /\ IdleScorer

NextLoad == LoadVauto \/ LoadReynolds

SpecLoad == InitLoad /\ [][NextLoad]_vars


(***************************************************************************)
(* Properties of the reconciliation.                                       *)
(***************************************************************************)
\* the normalized stock key of a row of the first / second record set
KeyVauto(i) == normalize_stock_number(df_vauto.rows[i].stock_number).s

KeyReynolds(j) == normalize_stock_number(df_reynolds.rows[j].stock_number).s

\* the rows of a category that come from row i of the first record set, and
\* from row j of the second
FromVauto(category, i) == {n \in DOMAIN category : category[n].vauto = i}

FromReynolds(category, j) == {n \in DOMAIN category : category[n].reynolds = j}

FromPair(category, i, j) ==
    {n \in DOMAIN category : category[n].vauto = i /\ category[n].reynolds = j}

\* the pairs of rows that share a normalized stock key
SharedPairs ==
    {p \in (DOMAIN df_vauto.rows) \X (DOMAIN df_reynolds.rows) :
        KeyVauto(p[1]) = KeyReynolds(p[2])}

\* C1: in a returned result every row of the first record set is in
\* exact_matches exactly when its normalized stock key is the key of some row
\* of the second, and is otherwise in missing_in_reynolds exactly once and
\* nowhere else; the same for the rows of the second record set and
\* missing_in_vauto; the joined rows are pairs of equal key, whatever their
\* VINs.
C1_JoinOnStockKeyOnly ==
    results.returned =>
        /\ \A i \in DOMAIN df_vauto.rows :
             LET joined == \E j \in DOMAIN df_reynolds.rows : KeyVauto(i) = KeyReynolds(j)
             IN  /\ (FromVauto(results.exact_matches, i) # {}) <=> joined
                 /\ Cardinality(FromVauto(results.missing_in_reynolds, i))
                        = (IF joined THEN 0 ELSE 1)
                 /\ FromVauto(results.missing_in_vauto, i) = {}
        /\ \A j \in DOMAIN df_reynolds.rows :
             LET joined == \E i \in DOMAIN df_vauto.rows : KeyVauto(i) = KeyReynolds(j)
             IN  /\ (FromReynolds(results.exact_matches, j) # {}) <=> joined
                 /\ Cardinality(FromReynolds(results.missing_in_vauto, j))
                        = (IF joined THEN 0 ELSE 1)
                 /\ FromReynolds(results.missing_in_reynolds, j) = {}
        /\ \A n \in DOMAIN results.exact_matches :
             <<results.exact_matches[n].vauto, results.exact_matches[n].reynolds>>
                 \in SharedPairs
        /\ \A n \in DOMAIN results.missing_in_reynolds :
             /\ results.missing_in_reynolds[n].vauto \in DOMAIN df_vauto.rows
             /\ results.missing_in_reynolds[n].reynolds = 0
        /\ \A n \in DOMAIN results.missing_in_vauto :
             /\ results.missing_in_vauto[n].reynolds \in DOMAIN df_reynolds.rows
             /\ results.missing_in_vauto[n].vauto = 0

\* C1 witness: a returned result in which two rows of different VIN are
\* joined, and a row is missing although a row of the other side has its VIN.
C1_Witness ==
    /\ results.returned
    /\ \E n \in DOMAIN results.exact_matches :
         LET r == results.exact_matches[n]
         IN  df_vauto.rows[r.vauto].vin # df_reynolds.rows[r.reynolds].vin
    /\ \E n \in DOMAIN results.missing_in_vauto :
       \E i \in DOMAIN df_vauto.rows :
         df_vauto.rows[i].vin = df_reynolds.rows[results.missing_in_vauto[n].reynolds].vin

\* the number of rows of exact_matches with this key
ExactOfKey(k) ==
    Cardinality({n \in DOMAIN results.exact_matches :
                    results.exact_matches[n].stock_number_norm = k})

CountVauto(k) == Cardinality({i \in DOMAIN df_vauto.rows : KeyVauto(i) = k})

CountReynolds(k) == Cardinality({j \in DOMAIN df_reynolds.rows : KeyReynolds(j) = k})

\* C2: in a returned result exact_matches holds exactly one row per pair of
\* rows sharing a key, so countA(k) * countB(k) rows for each shared key k,
\* and summary exact_matches counts the pairs.
C2_CrossProductPerKey ==
    results.returned =>
        /\ \A p \in SharedPairs :
             Cardinality(FromPair(results.exact_matches, p[1], p[2])) = 1
        /\ \A i \in DOMAIN df_vauto.rows :
             ExactOfKey(KeyVauto(i)) = CountVauto(KeyVauto(i)) * CountReynolds(KeyVauto(i))
        /\ results.summary.exact_matches = Cardinality(SharedPairs)
        /\ results.summary.exact_matches = Len(results.exact_matches)

\* C2 witness: a key that two rows of one side and one row of the other
\* share, and its two joined rows.
C2_Witness ==
    /\ results.returned
    /\ \E i \in DOMAIN df_vauto.rows :
         /\ CountVauto(KeyVauto(i)) * CountReynolds(KeyVauto(i)) = 2
         /\ ExactOfKey(KeyVauto(i)) = 2

\* the normalized VIN of a row of the first / second record set
VinVauto(i) == normalize_vin(df_vauto.rows[i].vin).s

VinReynolds(j) == normalize_vin(df_reynolds.rows[j].vin).s

\* C3: in a returned result the joined row of a pair is in vin_mismatches
\* exactly when the two normalized VINs are both non-empty and differ, and
\* every row of vin_mismatches is a row of exact_matches.
C3_VinMismatchIff ==
    results.returned =>
        /\ \A n \in DOMAIN results.vin_mismatches :
             \E m \in DOMAIN results.exact_matches :
                 results.exact_matches[m] = results.vin_mismatches[n]
        /\ \A i \in DOMAIN df_vauto.rows : \A j \in DOMAIN df_reynolds.rows :
             Cardinality(FromPair(results.vin_mismatches, i, j))
                = (IF /\ <<i, j>> \in SharedPairs
                      /\ VinVauto(i) # <<>>
                      /\ VinReynolds(j) # <<>>
                      /\ VinVauto(i) # VinReynolds(j)
                   THEN 1 ELSE 0)
        /\ results.summary.vin_mismatches = Len(results.vin_mismatches)

\* C3 witness: one joined pair whose VINs differ after normalization, which
\* is a VIN mismatch, and one whose VINs differ only in case and punctuation,
\* which is none.
C3_Witness ==
    /\ results.returned
    /\ \E n \in DOMAIN results.vin_mismatches :
         results.vin_mismatches[n].vin_norm_vauto
            # results.vin_mismatches[n].vin_norm_reynolds
    /\ \E p \in SharedPairs :
         /\ df_vauto.rows[p[1]].vin = STR1A
         /\ df_reynolds.rows[p[2]].vin = STR1AU
         /\ FromPair(results.vin_mismatches, p[1], p[2]) = {}

\* the record sets of the scenario: stock "007" and "7", the same VIN,
\* status "Available" and "Sold"
ScenarioStatus ==
    /\ df_vauto = Frame(AllColumns, <<Row(STR007, EXVIN, STAVAIL)>>)
    /\ df_reynolds = Frame(AllColumns, <<Row(STR7, EXVIN, STSOLD)>>)

\* C4: in a returned result the joined row of a pair is in status_mismatches
\* exactly when both statuses are non-null and the raw values differ, every
\* row of status_mismatches is a row of exact_matches, and the scenario gives
\* one exact match, no VIN mismatch and one status mismatch.
C4_StatusMismatchIff ==
    results.returned =>
        /\ \A n \in DOMAIN results.status_mismatches :
             \E m \in DOMAIN results.exact_matches :
                 results.exact_matches[m] = results.status_mismatches[n]
        /\ \A i \in DOMAIN df_vauto.rows : \A j \in DOMAIN df_reynolds.rows :
             Cardinality(FromPair(results.status_mismatches, i, j))
                = (IF /\ <<i, j>> \in SharedPairs
                      /\ ~IsNa(df_vauto.rows[i].status)
                      /\ ~IsNa(df_reynolds.rows[j].status)
                      /\ df_vauto.rows[i].status # df_reynolds.rows[j].status
                   THEN 1 ELSE 0)
        /\ results.summary.status_mismatches = Len(results.status_mismatches)
        /\ ScenarioStatus =>
             /\ results.summary.exact_matches = 1
             /\ results.summary.vin_mismatches = 0
             /\ results.summary.status_mismatches = 1

\* C4 witness: the scenario's result, with its status mismatch.
C4_Witness ==
    /\ results.returned
    /\ ScenarioStatus
    /\ Len(results.status_mismatches) = 1

\* a stock number that is null or the empty string
NoStock(v) == v = Null \/ v = Str(<<>>)

\* C5: in a returned result every row without a stock number of one side is
\* joined with every such row of the other side, and none of them is in
\* missing_in_reynolds or missing_in_vauto.
C5_EmptyKeysJoin ==
    results.returned =>
        \A i \in DOMAIN df_vauto.rows : \A j \in DOMAIN df_reynolds.rows :
            (NoStock(df_vauto.rows[i].stock_number)
                /\ NoStock(df_reynolds.rows[j].stock_number)) =>
                /\ FromPair(results.exact_matches, i, j) # {}
                /\ FromVauto(results.missing_in_reynolds, i) = {}
                /\ FromReynolds(results.missing_in_vauto, j) = {}

\* C5 witness: a null stock number on one side joined with an empty one on
\* the other.
C5_Witness ==
    /\ results.returned
    /\ \E n \in DOMAIN results.exact_matches :
         LET r == results.exact_matches[n]
         IN  /\ df_vauto.rows[r.vauto].stock_number = Null
             /\ df_reynolds.rows[r.reynolds].stock_number = Str(<<>>)


(***************************************************************************)
(* Properties of the normalizers.                                          *)
(***************************************************************************)
\* a string of ASCII decimal digits without its leading zeros, one digit kept
RECURSIVE WithoutLeadingZeros(_)
WithoutLeadingZeros(s) ==
    IF Len(s) > 1 /\ Head(s) = "0" THEN WithoutLeadingZeros(Tail(s)) ELSE s

\* what normalize_stock_number is said to return for a value
StockNumberAsClaimed(v) ==
    IF v = Null THEN <<>>
    ELSE LET t == Upper(Strip(PyStr(v)))
         IN  IF t # <<>> /\ \A i \in DOMAIN t : t[i] \in Range(DecimalDigits)
             THEN WithoutLeadingZeros(t)
             ELSE t

\* C7 (as claimed): for every value both normalizers return, and return the
\* same again when applied to what they returned.
C7_Idempotent ==
    /\ \A n \in DOMAIN stock_norm : ~stock_norm[n].raised
    /\ Len(stock_norm) = 2 => stock_norm[2] = stock_norm[1]
    /\ \A n \in DOMAIN vin_norm : ~vin_norm[n].raised
    /\ Len(vin_norm) = 2 => vin_norm[2] = vin_norm[1]

\* Idempotence where the first call returns: the second call returns the
\* same str.
IdempotentWhereReturned ==
    /\ Len(stock_norm) = 2 => stock_norm[2] = stock_norm[1]
    /\ Len(vin_norm) = 2 => vin_norm[2] = vin_norm[1]

\* C8 (as claimed): normalize_stock_number returns '' for a null value, the
\* decimal form without leading zeros for a value that is all digits once
\* trimmed and uppercased, and the trimmed and uppercased value otherwise.
C8_StockNumberForm ==
    Len(stock_norm) >= 1 => stock_norm[1] = Returned(StockNumberAsClaimed(value))

\* The claimed form where the call returns.
StockNumberFormWhereReturned ==
    (Len(stock_norm) >= 1 /\ ~stock_norm[1].raised) =>
        stock_norm[1] = Returned(StockNumberAsClaimed(value))

\* the positions of str(v) whose character is alphanumeric
AlnumPositions(s) == {i \in DOMAIN s : IsAlnum(s[i])}

\* the k-th smallest element of a set of positions
KthOf(P, k) == CHOOSE i \in P : Cardinality({x \in P : x < i}) = k - 1

\* C9: normalize_vin returns '' for a null value, and otherwise the
\* alphanumeric characters of the value, uppercased, in their order and of
\* any number; the two forms of the example VIN give the same 17 characters.
C9_VinForm ==
    Len(vin_norm) >= 1 =>
        /\ ~vin_norm[1].raised
        /\ value = Null => vin_norm[1].s = <<>>
        /\ value # Null =>
             LET s == PyStr(value)
                 P == AlnumPositions(s)
             IN  /\ Len(vin_norm[1].s) = Cardinality(P)
                 /\ \A k \in DOMAIN vin_norm[1].s :
                      vin_norm[1].s[k] = UpperChar(s[KthOf(P, k)])
        /\ value = EXVINRAW => vin_norm[1].s = EXVIN.s
        /\ value = EXVIN => vin_norm[1].s = EXVIN.s

\* C9 witness: the example VIN with spaces, lower case and a hyphen,
\* normalized.
C9_Witness ==
    /\ value = EXVINRAW
    /\ Len(vin_norm) >= 1
    /\ vin_norm[1].s = EXVIN.s

\* C10 (as claimed): whatever the value, normalize_stock_number and
\* normalize_vin return a str, and auto_detect_column_mapping returns a
\* mapping entry and a confidence entry for every semantic field.
C10_Total ==
    /\ \A n \in DOMAIN stock_norm : ~stock_norm[n].raised
    /\ \A n \in DOMAIN vin_norm : ~vin_norm[n].raised
    /\ \A n \in DOMAIN detection :
         /\ DOMAIN detection[n].mapping = DOMAIN standard_columns
         /\ DOMAIN detection[n].confidence_scores = DOMAIN standard_columns

\* normalize_stock_number raises exactly for the values that, trimmed, are
\* all digits by str.isdigit() and hold a digit int() does not read.
RaisesOnlyOnNonDecimalDigits ==
    Len(stock_norm) >= 1 =>
        (stock_norm[1].raised <=>
            /\ value # Null
            /\ LET t == Strip(PyStr(value))
               IN  /\ t # <<>>
                   /\ \A i \in DOMAIN t : t[i] \in Range(DecimalDigits) \cup {"sup2"}
                   /\ \E i \in DOMAIN t : t[i] = "sup2")

(***************************************************************************)
(* Properties of the loaders.                                              *)
(***************************************************************************)
\* a load of a readable table with auto_map has been made
AutoLoaded == loaded # <<>> /\ loaded[1].auto_map /\ raw_df.readable

\* the cells of the raw column of that name, row by row
RawColumn(file_col) == ColumnOf(raw_df, file_col)

\* the frame holds the projection the mapping describes: the raw table's
\* row count, the raw column verbatim under each mapped field, null in every
\* row under each unmapped field, and the unmapped fields as missing_columns
ProjectionOf(frame) ==
    LET mapping == frame.attrs.column_mapping
    IN  /\ Len(frame.rows) = Len(raw_df.rows)
        /\ \A f \in Range(StandardFields) :
             IF IsNa(mapping[f])
             THEN \A r \in DOMAIN frame.rows : frame.rows[r][f] = Null
             ELSE /\ mapping[f] \in Range(raw_df.columns)
                  /\ \A r \in DOMAIN frame.rows :
                       frame.rows[r][f] = RawColumn(mapping[f])[r]
        /\ Range(frame.attrs.missing_columns)
              = {f \in Range(StandardFields) : IsNa(mapping[f])}

\* C6 (as claimed): a load with auto_map of a readable table never fails,
\* whatever is mapped; each mapped field holds the chosen raw column verbatim
\* row by row, each unmapped field is null in every row with the row count
\* preserved, and missing_columns is exactly the set of unmapped fields.
C6_ProjectionNeverFails ==
    AutoLoaded => (~loaded[1].outcome.raised /\ ProjectionOf(loaded[1].outcome))

\* some raw column is matched by the detection of that loader
SomeFieldMapped(loader) ==
    \E f \in Range(StandardFields) :
        ~IsNa(auto_detect_column_mapping(
                  IF loader = "vauto" THEN VautoStandardColumns
                  ELSE ReynoldsStandardColumns, raw_df.columns).mapping[f])

\* a load with auto_map of a readable table raises exactly when no field at
\* all is mapped, and holds the projection otherwise
ProjectionWhereSomeFieldMapped ==
    AutoLoaded =>
        IF loaded[1].outcome.raised THEN ~SomeFieldMapped(loaded[1].loader)
        ELSE /\ ProjectionOf(loaded[1].outcome)
             /\ \E f \in Range(StandardFields) :
                  ~IsNa(loaded[1].outcome.attrs.column_mapping[f])

\* a load in which stock_number is unmapped and another field is mapped
StockNumberUnmappedLoaded ==
    /\ AutoLoaded
    /\ ~loaded[1].outcome.raised
    /\ IsNa(loaded[1].outcome.attrs.column_mapping["stock_number"])
    /\ Len(loaded[1].outcome.rows) = 2

\* a load of a table with rows none of whose columns is matched
NothingMappedLoaded ==
    /\ AutoLoaded
    /\ loaded[1].outcome.raised
    /\ raw_df.columns = <<COL_NOTES>>
    /\ Len(raw_df.rows) = 2

(***************************************************************************)
(* Properties of the similarity score.                                     *)
(***************************************************************************)
RECURSIVE TokensOf(_)
\* the maximal runs of word characters of a string, in their order, in
\* lower case
TokensOf(s) ==
    IF s = <<>> THEN <<>>
    ELSE IF ~IsWordChar(Head(s)) THEN TokensOf(Tail(s))
    ELSE LET n == IF \E i \in DOMAIN s : ~IsWordChar(s[i])
                  THEN (CHOOSE i \in DOMAIN s :
                           ~IsWordChar(s[i]) /\ \A k \in 1..(i - 1) : IsWordChar(s[k])) - 1
                  ELSE Len(s)
         IN  <<Lower(SubSeq(s, 1, n))>> \o TokensOf(SubSeq(s, n + 1, Len(s)))

RECURSIVE JoinTokens(_)
\* ' '.join(tokens)
JoinTokens(tokens) ==
    IF tokens = <<>> THEN <<>>
    ELSE IF Len(tokens) = 1 THEN tokens[1]
    ELSE tokens[1] \o <<" ">> \o JoinTokens(Tail(tokens))

\* a name lowercased, trimmed, its punctuation turned to spaces and its
\* whitespace collapsed: its words, one space between them (None is '')
NormalizedAsClaimed(v) == IF IsNa(v) THEN <<>> ELSE JoinTokens(TokensOf(PyStr(v)))

\* the score as claimed: 1.0, 0.8 or the Jaccard similarity
ScoreAsClaimed(target, candidate) ==
    LET t == NormalizedAsClaimed(target)
        c == NormalizedAsClaimed(candidate)
        tw == IF IsNa(target) THEN {} ELSE Range(TokensOf(PyStr(target)))
        cw == IF IsNa(candidate) THEN {} ELSE Range(TokensOf(PyStr(candidate)))
    IN  IF t = c THEN [num |-> 1, den |-> 1]
        ELSE IF IsSubstring(t, c) \/ IsSubstring(c, t) THEN [num |-> 4, den |-> 5]
        ELSE IF tw = {} \/ cw = {} THEN [num |-> 0, den |-> 1]
        ELSE Score(Cardinality(tw \cap cw), Cardinality(tw \cup cw))

\* C11: calculate_similarity_score returns 1.0 for names equal after
\* normalization, else 0.8 when one normalized name is a substring of the
\* other, else the Jaccard similarity of their word sets (0.0 when a word
\* set is empty); the score is in [0, 1].
C11_SimilarityScore ==
    similarity # <<>> =>
        /\ similarity[1] = ScoreAsClaimed(name_pair.target, name_pair.candidate)
        /\ similarity[1].den > 0
        /\ 0 <= similarity[1].num
        /\ similarity[1].num <= similarity[1].den

\* a pair scored by a Jaccard similarity strictly between 0 and 1
C11_Witness ==
    /\ similarity # <<>>
    /\ similarity[1] = [num |-> 2, den |-> 3]
    /\ name_pair.target = NAME_A_B_C

(***************************************************************************)
(* Properties of the column mapper.                                        *)
(***************************************************************************)
\* the scores of all (alias, raw column) pairs of a field
ScoresOf(std_col) ==
    {calculate_similarity_score(standard_columns[std_col][a], df_columns[c]) :
        a \in DOMAIN standard_columns[std_col], c \in DOMAIN df_columns}

\* the highest score of a field, 0.0 when it has no pair
MaxScore(std_col) ==
    TheOne({IF scores = {} THEN Score(0, 1)
            ELSE CHOOSE m \in scores : \A s \in scores : ScoreAtLeast(m, s) :
               scores \in {ScoresOf(std_col)}})

\* the raw column is one of the given list that attains the score with some alias
Attains(std_col, col, score) ==
    /\ col \in Range(df_columns)
    /\ \E a \in DOMAIN standard_columns[std_col] :
         calculate_similarity_score(standard_columns[std_col][a], col) = score

\* the entry of a field is the one its highest score prescribes
EntryByMaxScore(d, std_col) ==
    IF ScoreAtLeast(MaxScore(std_col), MinSimilarity)
    THEN /\ ~IsNa(d.mapping[std_col])
         /\ Attains(std_col, d.mapping[std_col], MaxScore(std_col))
         /\ d.confidence_scores[std_col] = MaxScore(std_col)
    ELSE /\ IsNa(d.mapping[std_col])
         /\ d.confidence_scores[std_col] = Score(0, 1)

\* a field is unmapped exactly when its confidence is 0.0, and the confidence
\* of a mapped field is in [0.3, 1]
ConfidenceOfEntry(d, std_col) ==
    /\ IsNa(d.mapping[std_col]) <=> d.confidence_scores[std_col] = Score(0, 1)
    /\ ~IsNa(d.mapping[std_col]) =>
          /\ ScoreAtLeast(d.confidence_scores[std_col], MinSimilarity)
          /\ ScoreAtLeast(Score(1, 1), d.confidence_scores[std_col])

\* C12 (as claimed): every field whose highest score over all (alias, raw
\* column) pairs is at least 0.3 is mapped to a raw column attaining it,
\* whatever its name, with that score as confidence; every other field is
\* unmapped with confidence 0.0; a field is unmapped iff its confidence is 0.0
\* and a mapped field's confidence is in [0.3, 1].
C12_MappedByMaxScore ==
    \A n \in DOMAIN detection : \A std_col \in DOMAIN standard_columns :
        /\ EntryByMaxScore(detection[n], std_col)
        /\ ConfidenceOfEntry(detection[n], std_col)

\* a raw column name that is false in an if: '' or 0
FalsyNameGiven == \E c \in DOMAIN df_columns : ~Truthy(df_columns[c])

\* the entries are as claimed whenever no raw column name is '' or 0
MappedByMaxScoreOfTruthyNames ==
    ~FalsyNameGiven => C12_MappedByMaxScore

\* the confidence of an entry is as claimed on every input
ConfidenceAsClaimed ==
    \A n \in DOMAIN detection : \A std_col \in DOMAIN standard_columns :
        ConfidenceOfEntry(detection[n], std_col)

\* a field left unmapped although its only raw column, '', scores 0.8
EmptyNameDropped ==
    /\ detection # <<>>
    /\ df_columns = <<Str(<<>>)>>
    /\ standard_columns = [stock_number |-> <<NAME_A>>]
    /\ MaxScore("stock_number") = Score(4, 5)
    /\ IsNa(detection[1].mapping["stock_number"])

\* the normalized aliases of a field
NormalizedAliases(std_col) ==
    {normalize_column_name(standard_columns[std_col][a]) :
        a \in DOMAIN standard_columns[std_col]}

\* some alias of the field equals some raw column after normalization
ExactAliasGiven(std_col) ==
    \E c \in DOMAIN df_columns :
        normalize_column_name(df_columns[c]) \in NormalizedAliases(std_col)

\* the field is mapped with confidence 1.0 to a raw column whose normalized
\* name is a normalized alias
MappedToExactAlias(d, std_col) ==
    /\ ~IsNa(d.mapping[std_col])
    /\ d.mapping[std_col] \in Range(df_columns)
    /\ d.confidence_scores[std_col] = Score(1, 1)
    /\ normalize_column_name(d.mapping[std_col]) \in NormalizedAliases(std_col)

\* C13 (as claimed): whenever some alias of a field equals some raw column
\* after normalization, the field is mapped with confidence 1.0 to a raw
\* column whose normalized name equals a normalized alias, whatever the order
\* of the aliases and the columns and whatever the other pairs score.
C13_ExactAliasWins ==
    \A n \in DOMAIN detection : \A std_col \in DOMAIN standard_columns :
        ExactAliasGiven(std_col) => MappedToExactAlias(detection[n], std_col)

\* with an exact alias given, the field is mapped with confidence 1.0 to one
\* of the raw columns
ExactAliasGivesFullConfidence ==
    \A n \in DOMAIN detection : \A std_col \in DOMAIN standard_columns :
        ExactAliasGiven(std_col) =>
            /\ detection[n].mapping[std_col] \in Range(df_columns)
            /\ detection[n].confidence_scores[std_col] = Score(1, 1)

\* the raw column with the alias's words in another order comes first and is
\* kept, although the raw column equal to the alias follows it
PermutedWordsKept ==
    /\ detection # <<>>
    /\ standard_columns = [stock_number |-> <<NAME_A_B>>]
    /\ df_columns = <<NAME_B_A, NAME_A_B>>
    /\ detection[1].mapping["stock_number"] = NAME_B_A
    /\ detection[1].confidence_scores["stock_number"] = Score(1, 1)

\* the raw column of the first of the pairs whose score is the given one
FirstAttaining(pairs, score) ==
    pairs[CHOOSE i \in DOMAIN pairs :
            /\ calculate_similarity_score(pairs[i].target, pairs[i].col) = score
            /\ \A j \in 1..(i - 1) :
                 calculate_similarity_score(pairs[j].target, pairs[j].col) # score].col

\* the raw columns of the pairs whose score is the given one
ColumnsAttaining(pairs, score) ==
    {pairs[i].col : i \in {j \in DOMAIN pairs :
        calculate_similarity_score(pairs[j].target, pairs[j].col) = score}}

\* the pairs of a field in the order the two loops visit them
PairsOf(std_col) == LoopPairs(standard_columns[std_col], df_columns)

\* C15: when the highest score of a field's (alias, raw column) pairs selects
\* a column (it is at least 0.3), find_best_column_match returns the column
\* of the first pair, in the order of the two loops, that attains it, with
\* that score; and two calls of auto_detect_column_mapping on the same inputs
\* return the same mapping and the same confidence scores.
C15_FirstPairWins ==
    /\ \A n \in DOMAIN best_found :
         \A m \in {MaxScore(best_found[n].std_col)} :
            ScoreAtLeast(m, MinSimilarity) =>
               /\ best_found[n].found.best_match =
                     FirstAttaining(PairsOf(best_found[n].std_col), m)
               /\ best_found[n].found.best_score = m
    /\ Len(detection) = 2 =>
         /\ detection[1].mapping = detection[2].mapping
         /\ detection[1].confidence_scores = detection[2].confidence_scores

\* C15 witness: two different raw columns attain the highest score of a
\* field, the first of them was selected, and the mapping was detected twice
C15_Witness ==
    /\ best_found # <<>>
    /\ Len(detection) = 2
    /\ \E m \in {MaxScore(best_found[1].std_col)} :
         /\ ScoreAtLeast(m, MinSimilarity)
         /\ Cardinality(ColumnsAttaining(PairsOf(best_found[1].std_col), m)) > 1
         /\ best_found[1].found.best_match =
               FirstAttaining(PairsOf(best_found[1].std_col), m)

\* a highest score below 0.3 selects no column
NothingSelectedBelowThreshold ==
    \A n \in DOMAIN best_found :
        ~ScoreAtLeast(MaxScore(best_found[n].std_col), MinSimilarity) =>
            /\ IsNa(best_found[n].found.best_match)
            /\ best_found[n].found.best_score = Score(0, 1)

(***************************************************************************)
(* Properties of the analysis.                                             *)
(***************************************************************************)
\* the warning the summary prescribes: none, the format warning, or the VIN
\* warning with the count, which takes the place of the format warning
WarningAsClaimed(dict, summary) ==
    /\ summary.vin_mismatches > 0 =>
          /\ "warning" \in DOMAIN dict
          /\ dict["warning"] = VinWarning(summary.vin_mismatches)
    /\ (summary.vin_mismatches = 0 /\ summary.exact_matches = 0) =>
          /\ "warning" \in DOMAIN dict
          /\ dict["warning"] = FormatWarning
    /\ (summary.vin_mismatches = 0 /\ summary.exact_matches > 0) =>
          "warning" \notin DOMAIN dict

\* C14: the analysis of any result holds at most one warning, the VIN
\* warning with the count when vin_mismatches > 0, else the format warning
\* when exact_matches = 0, else none; and making the analysis leaves the two
\* record sets and the result as they were.
C14_OneWarningSlot ==
    /\ [](analysis.made => WarningAsClaimed(analysis.dict, results.summary))
    /\ [][analysis' # analysis =>
             /\ df_vauto' = df_vauto
             /\ df_reynolds' = df_reynolds
             /\ results' = results]_vars

\* C14 witness: an analysis of a result with no exact match and VIN
\* mismatches, which holds the VIN warning in place of the format warning
C14_Witness ==
    /\ analysis.made
    /\ results.summary.exact_matches = 0
    /\ results.summary.vin_mismatches = 2
    /\ analysis.dict["warning"] = VinWarning(2)
    /\ "vauto_stock_samples" \in DOMAIN analysis.dict
    /\ analysis.dict["vauto_stock_samples"] = <<STR7>>

\* C16: in every result compare_inventories returns, vin_mismatches and
\* status_mismatches are at most exact_matches, so vin_mismatches > 0 implies
\* exact_matches > 0; the analysis of a result without exact match therefore
\* holds the format warning, which no VIN warning has replaced.
C16_MismatchesWithinExactMatches ==
    /\ results.returned =>
          /\ results.summary.vin_mismatches <= results.summary.exact_matches
          /\ results.summary.status_mismatches <= results.summary.exact_matches
          /\ results.summary.vin_mismatches > 0 => results.summary.exact_matches > 0
    /\ (analysis.made /\ results.summary.exact_matches = 0) =>
          /\ "warning" \in DOMAIN analysis.dict
          /\ analysis.dict["warning"] = FormatWarning

\* C16 witness: the analysis of a returned result with a VIN mismatch among
\* its exact matches, which holds the VIN warning
C16_Witness ==
    /\ results.returned
    /\ analysis.made
    /\ results.summary.vin_mismatches > 0
    /\ results.summary.exact_matches > 0
    /\ analysis.dict["warning"] = VinWarning(results.summary.vin_mismatches)

\* the analysis of a returned result without exact match, which holds the
\* format warning
NoMatchWarningKept ==
    /\ results.returned
    /\ analysis.made
    /\ results.summary.exact_matches = 0
    /\ results.summary.total_vauto > 0
    /\ results.summary.total_reynolds > 0
    /\ analysis.dict["warning"] = FormatWarning

=============================================================================
